---------------------------- MODULE Spec2Model ----------------------------
(***************************************************************************)
(* Booking-to-schedule derivation of the cleaner-schedule repository.      *)
(*                                                                         *)
(* Two programs are modelled: the web service app.py (fetch_ics,           *)
(* parse_bookings, build_schedule, render_schedule, the /cleaner route)    *)
(* and the library booking_cleaner.py (fetch_ics, parse_bookings,          *)
(* build_schedule_for_days, format_schedule, schedule_to_rows).            *)
(*                                                                         *)
(* Dates are day numbers 0..MaxDay.  A calendar text is a record           *)
(* [kind, events]: kind "empty" is the text "", "blank" a whitespace-only  *)
(* text, "garbage" a text icalendar cannot parse, "cal" a VCALENDAR whose  *)
(* VEVENTs are `events`.  A Python dict is a sequence of [k, v] records in *)
(* insertion order.  A call that may raise returns [raised, val].          *)
(***************************************************************************)
EXTENDS Integers, Sequences, FiniteSets, TLC

\* ------------------------------------------------------------- bounds
\* dates are the days 0..MaxDay
MaxDay == 2
\* the calendars of all flats together hold at most MaxEvents events
MaxEvents == 2

Days == 0..MaxDay
\* the date of a run ("today"): a day with days before and after it
Today == MaxDay \div 2
\* requested day counts, non-positive ones included
DayCounts == (0 - 1)..MaxDay

\* app.py DEFAULT_DAYS (the DEFAULT_DAYS variable is not set)
DEFAULT_DAYS == 14
\* the window render_schedule offers at least when the schedule is empty
LongerDays == 30

\* the query of a /cleaner request: no days parameter, or days=v
Requests ==
  {[given |-> FALSE, v |-> 0]}
    \cup {[given |-> TRUE, v |-> n] : n \in DayCounts \cup {LongerDays}}

\* the days argument the /cleaner route gets for a query
cleaner_days(q) == IF q.given THEN q.v ELSE DEFAULT_DAYS

\* ------------------------------------------------------- configuration
\* The FLATn_* environment read by load_flats; the third flat has no URL.
FlatEnv ==
  << [name |-> "Flat 7", url |-> "https://ota/7.ics"],
     [name |-> "Flat 8", url |-> "https://ota/8.ics"],
     [name |-> "Flat 9", url |-> ""] >>

Urls == {"https://ota/7.ics", "https://ota/8.ics"}

RECURSIVE load_flats_from(_)
load_flats_from(n) ==
  IF n > Len(FlatEnv) THEN << >>
  ELSE IF FlatEnv[n].url = "" THEN load_flats_from(n + 1)
       ELSE << [k |-> FlatEnv[n].name, v |-> [url |-> FlatEnv[n].url]] >>
            \o load_flats_from(n + 1)

\* app.py load_flats: name -> meta, flats without a URL skipped
load_flats == load_flats_from(1)

Flats == {load_flats[i].k : i \in 1..Len(load_flats)}

\* str.lower() of a flat name; "flat 8" is a name another configuration
\* may give a flat next to "Flat 8"
lower(name) ==
  CASE name = "Flat 7" -> "flat 7"
    [] name = "Flat 8" -> "flat 8"
    [] name = "Flat 9" -> "flat 9"
    [] OTHER -> name

\* the lower-cased names in string order
LowerOrder == << "flat 7", "flat 8", "flat 9" >>

\* position of a flat name in the order of its lower-cased name
FlatRank(f) == CHOOSE i \in 1..Len(LowerOrder) : LowerOrder[i] = lower(f)

\* ------------------------------------------------------------- values
Ok(v) == [raised |-> FALSE, val |-> v]
Raise(e) == [raised |-> TRUE, val |-> e]

NoDate == 0 - 1

\* the zone the schedule is meant for (never read by the parsers)
TIMEZONE == "Europe/London"

\* values of a DTSTART/DTEND property as icalendar hands them out: d is
\* the date the value carries (of a date-time: the date in its own zone),
\* ld the date the instant has in TIMEZONE
NoneV == [k |-> "none", d |-> NoDate, ld |-> NoDate]
DateV(d) == [k |-> "date", d |-> d, ld |-> d]
DateTimeZ(d, ld) == [k |-> "datetime", d |-> d, ld |-> ld]
DateTimeV(d) == DateTimeZ(d, d)
TimedeltaV == [k |-> "timedelta", d |-> NoDate, ld |-> NoDate]
ListV == [k |-> "list", d |-> NoDate, ld |-> NoDate]

\* well-formed all-day events, of any length (zero and one day backwards
\* included)
DateEvents ==
  {ev \in {[dtstart |-> DateV(s), dtend |-> DateV(e)] : s \in Days, e \in Days} :
     ev.dtend.d >= ev.dtstart.d - 1}

\* a timed event: both boundaries are date-times; it ends in UTC late in
\* the evening of day MaxDay - 1, which in TIMEZONE is already day MaxDay
TimedEvents == {[dtstart |-> DateTimeV(0), dtend |-> DateTimeZ(MaxDay - 1, MaxDay)]}

\* events with one defective boundary: a missing property, a value that is
\* no date (a duration), a property given twice (icalendar returns a list)
BadEvents ==
  { [dtstart |-> NoneV, dtend |-> DateV(MaxDay)],
    [dtstart |-> DateV(0), dtend |-> NoneV],
    [dtstart |-> TimedeltaV, dtend |-> DateV(MaxDay)],
    [dtstart |-> DateV(0), dtend |-> ListV] }

EventSet == DateEvents \cup TimedEvents \cup BadEvents

EmptyText == [kind |-> "empty", events |-> << >>]
BlankText == [kind |-> "blank", events |-> << >>]
GarbageText == [kind |-> "garbage", events |-> << >>]
CalText(evs) == [kind |-> "cal", events |-> evs]

\* --------------------------------------------------------- Python dict
DictKeys(dct) == {dct[i].k : i \in 1..Len(dct)}
DictHas(dct, key) == key \in DictKeys(dct)
DictIdx(dct, key) == CHOOSE i \in 1..Len(dct) : dct[i].k = key
DictGet(dct, key) == dct[DictIdx(dct, key)].v
DictSet(dct, key, val) ==
  IF DictHas(dct, key)
  THEN [dct EXCEPT ![DictIdx(dct, key)] = [k |-> key, v |-> val]]
  ELSE Append(dct, [k |-> key, v |-> val])
\* mutant of DictSetDefault: the key is added even when it is there
DictSetDefault_add(dct, key, val) == Append(dct, [k |-> key, v |-> val])
DictSetDefault(dct, key, val) ==
  IF DictHas(dct, key) THEN dct ELSE Append(dct, [k |-> key, v |-> val])

\* sorted(..., key=...): a stable insertion sort of a sequence of
\* [sk, x] records (sk the integer sort key of x)
RECURSIVE InsertSorted(_, _)
InsertSorted(s, x) ==
  IF s = << >> THEN << x >>
  ELSE IF x.sk < Head(s).sk THEN << x >> \o s
       ELSE << Head(s) >> \o InsertSorted(Tail(s), x)

RECURSIVE SortKeyed(_)
SortKeyed(s) ==
  IF s = << >> THEN << >>
  ELSE InsertSorted(SortKeyed(SubSeq(s, 1, Len(s) - 1)), s[Len(s)])

\* ------------------------------------------------ HTTP and icalendar
HttpOutcomes == {"ok", "http_error", "timeout", "network_error"}

\* requests.get(url): the response, or the exception it raises; `served`
\* is the text the URL serves at that moment
requests_get(served, outcome) ==
  IF outcome \in {"timeout", "network_error"} THEN Raise(outcome)
  ELSE IF outcome = "http_error"
       THEN Ok([status_code |-> 500, text |-> GarbageText])
       ELSE Ok([status_code |-> 200, text |-> served])

\* Calendar.from_ical: raises ValueError on a text that holds no calendar
Calendar_from_ical(ics_text) ==
  IF ics_text.kind = "cal" THEN Ok(ics_text.events) ELSE Raise("ValueError")

\* ---------------------------------------------------------------- app.py
\* fetch_ics: every failure is turned into ""
fetch_ics(url, resp) ==
  IF url = "" THEN EmptyText
  ELSE IF resp.raised THEN EmptyText
  ELSE IF resp.val.status_code >= 400 \/ resp.val.text = EmptyText THEN EmptyText
  ELSE resp.val.text

\* parse_bookings.to_date: hasattr(v, "dt") holds of a property value and
\* not of a list; a datetime is cut to its date, anything else is v.dt / v
to_date(v) ==
  IF v.k \in {"date", "datetime", "timedelta"}
  THEN IF v.k = "datetime" THEN DateV(v.d) ELSE v
  ELSE v

\* isinstance(x, date)
IsDate(x) == x.k = "date"

\* mutant of parse_walk: the check-out is the last night, DTEND minus one
RECURSIVE parse_walk_last_night(_)
parse_walk_last_night(evs) ==
  IF evs = << >> THEN << >>
  ELSE LET ds == Head(evs).dtstart
           de == Head(evs).dtend
           rest == parse_walk_last_night(Tail(evs))
       IN IF ds.k = "none" \/ de.k = "none" THEN rest
          ELSE LET ci == to_date(ds)
                   co == to_date(de)
               IN IF IsDate(ci) /\ IsDate(co)
                  THEN << << ci.d, co.d - 1 >> >> \o rest
                  ELSE rest

\* the loop over cal.walk() of app.py parse_bookings
RECURSIVE parse_walk(_)
parse_walk(evs) ==
  IF evs = << >> THEN << >>
  ELSE LET ds == Head(evs).dtstart
           de == Head(evs).dtend
           rest == parse_walk(Tail(evs))
       IN IF ds.k = "none" \/ de.k = "none" THEN rest
          ELSE LET ci == to_date(ds)
                   co == to_date(de)
               IN IF IsDate(ci) /\ IsDate(co)
                  THEN << << ci.d, co.d >> >> \o rest
                  ELSE rest

\* app.py parse_bookings: text -> list of (check_in, check_out)
parse_bookings(ics_text) ==
  IF ics_text.kind \in {"empty", "blank"} THEN << >>
  ELSE LET cal == Calendar_from_ical(ics_text)
       IN IF cal.raised THEN << >> ELSE parse_walk(cal.val)

NoFlags == [in |-> FALSE, out |-> FALSE]

\* mutant of per_day_of: the entry of a day is assigned, not updated
RECURSIVE per_day_of_assign(_, _, _, _)
per_day_of_assign(spans, start, end, per_day) ==
  IF spans = << >> THEN per_day
  ELSE LET ci == Head(spans)[1]
           co == Head(spans)[2]
           p1 == IF start <= ci /\ ci <= end
                 THEN DictSet(per_day, ci, [in |-> TRUE, out |-> FALSE])
                 ELSE per_day
           p2 == IF start <= co /\ co <= end
                 THEN DictSet(p1, co, [in |-> FALSE, out |-> TRUE])
                 ELSE p1
       IN per_day_of_assign(Tail(spans), start, end, p2)

\* the loop over spans of build_schedule: the per_day dict of one flat
RECURSIVE per_day_of(_, _, _, _)
per_day_of(spans, start, end, per_day) ==
  IF spans = << >> THEN per_day
  ELSE LET ci == Head(spans)[1]
           co == Head(spans)[2]
           p1 == IF start <= ci /\ ci <= end
                 THEN LET q == DictSetDefault(per_day, ci, NoFlags)
                      IN DictSet(q, ci, [DictGet(q, ci) EXCEPT !.in = TRUE])
                 ELSE per_day
           p2 == IF start <= co /\ co <= end
                 THEN LET q == DictSetDefault(p1, co, NoFlags)
                      IN DictSet(q, co, [DictGet(q, co) EXCEPT !.out = TRUE])
                 ELSE p1
       IN per_day_of(Tail(spans), start, end, p2)

\* mutant of add_flat: the entry of a day that has a check-in shows no
\* check-out
RECURSIVE add_flat_in_first(_, _, _)
add_flat_in_first(schedule, flat_name, per_day) ==
  IF per_day = << >> THEN schedule
  ELSE LET d == Head(per_day).k
           flags == Head(per_day).v
           s1 == DictSetDefault(schedule, d, << >>)
           item == [flat |-> flat_name, in |-> flags.in,
                    out |-> flags.out /\ ~flags.in]
       IN add_flat_in_first(DictSet(s1, d, Append(DictGet(s1, d), item)),
                            flat_name, Tail(per_day))

\* the loop over per_day.items() of build_schedule: one entry per day
RECURSIVE add_flat(_, _, _)
add_flat(schedule, flat_name, per_day) ==
  IF per_day = << >> THEN schedule
  ELSE LET d == Head(per_day).k
           flags == Head(per_day).v
           s1 == DictSetDefault(schedule, d, << >>)
           item == [flat |-> flat_name, in |-> flags.in, out |-> flags.out]
       IN add_flat(DictSet(s1, d, Append(DictGet(s1, d), item)),
                   flat_name, Tail(per_day))

\* the loop over flats.items() of build_schedule; spans_of[flat] is
\* parse_bookings(fetch_ics(url)) of the flat
RECURSIVE build_flats(_, _, _, _, _)
build_flats(flats, spans_of, start, end, schedule) ==
  IF flats = << >> THEN schedule
  ELSE LET flat_name == Head(flats).k
           per_day == per_day_of(spans_of[flat_name], start, end, << >>)
       IN build_flats(Tail(flats), spans_of, start, end,
                      add_flat(schedule, flat_name, per_day))

\* key of the per-day sort: (not out, flat.lower())
ItemKey(it) == (IF it.out THEN 0 ELSE 1) * (Len(FlatEnv) + 1) + FlatRank(it.flat)

Keyed(s, Key(_)) == [i \in 1..Len(s) |-> [sk |-> Key(s[i]), x |-> s[i]]]
Unkeyed(s) == [i \in 1..Len(s) |-> s[i].x]

DayKey(kv) == kv.k

sort_schedule(schedule) ==
  LET byday == Unkeyed(SortKeyed(Keyed(schedule, DayKey)))
  IN [i \in 1..Len(byday) |->
        [k |-> byday[i].k, v |-> Unkeyed(SortKeyed(Keyed(byday[i].v, ItemKey)))]]

\* mutant of build_schedule: end = start + days (one day too many)
build_schedule_end(days, start, spans_of) ==
  sort_schedule(build_flats(load_flats, spans_of, start, start + days, << >>))

\* the body of build_schedule for the flats load_flats() has returned
build_with(flats, days, start, spans_of) ==
  LET end == start + (days - 1)
  IN sort_schedule(build_flats(flats, spans_of, start, end, << >>))

\* app.py build_schedule(days, start), given the spans parsed per flat
build_schedule(days, start, spans_of) == build_with(load_flats, days, start, spans_of)

\* the longer window render_schedule offers when the schedule is empty
render_empty(days) == IF days > LongerDays THEN days ELSE LongerDays

\* mutant of render_item: the prompt and the link on every row
render_item_all(d, it) ==
  [day |-> d,
   flat |-> it.flat,
   status_bits |-> (IF it.out THEN << "Check-out" >> ELSE << >>)
                   \o (IF it.in /\ ~it.out THEN << "Check-in" >> ELSE << >>),
   turn |-> IF it.out /\ it.in THEN "SAME-DAY TURNAROUND" ELSE "",
   clean_html |-> TRUE,
   btn |-> TRUE]

\* the row render_schedule writes for one item of a day
render_item(d, it) ==
  LET has_out == it.out
      has_in == it.in
      same_day == has_out /\ has_in
  IN [day |-> d,
      flat |-> it.flat,
      status_bits |-> (IF has_out THEN << "Check-out" >> ELSE << >>)
                      \o (IF has_in /\ ~has_out THEN << "Check-in" >> ELSE << >>),
      turn |-> IF same_day THEN "SAME-DAY TURNAROUND" ELSE "",
      clean_html |-> has_out,
      btn |-> has_out]

\* app.py render_schedule(sched, days): the "no activity" paragraph with
\* its longer window, or one block of rows per day
render_schedule(sched, days) ==
  IF sched = << >>
  THEN [empty |-> TRUE, longer |-> render_empty(days), parts |-> << >>]
  ELSE [empty |-> FALSE, longer |-> 0,
        parts |-> [i \in 1..Len(sched) |->
                     [day |-> sched[i].k,
                      rows |-> [j \in 1..Len(sched[i].v) |->
                                  render_item(sched[i].k, sched[i].v[j])]]]]

\* ------------------------------------------------------ booking_cleaner.py
\* fetch_ics: "" for no URL; requests' exceptions and raise_for_status pass
bc_fetch_ics(url, resp) ==
  IF url = "" THEN Ok(EmptyText)
  ELSE IF resp.raised THEN Raise(resp.val)
  ELSE IF resp.val.status_code >= 400 THEN Raise("HTTPError")
  ELSE Ok(resp.val.text)

\* prop.dt: a list (a property given twice) has no attribute dt
bc_dt(prop) == IF prop.k = "list" THEN Raise("AttributeError") ELSE Ok(prop)

\* hasattr(x, "date"): a datetime is cut to its date
bc_normalize(x) == IF x.k = "datetime" THEN DateV(x.d) ELSE x

\* the loop over cal.walk() of booking_cleaner.py parse_bookings
RECURSIVE bc_walk(_)
bc_walk(evs) ==
  IF evs = << >> THEN Ok(<< >>)
  ELSE LET dtstart_prop == Head(evs).dtstart
           dtend_prop == Head(evs).dtend
           rest == bc_walk(Tail(evs))
       IN IF dtstart_prop.k = "none" \/ dtend_prop.k = "none" THEN rest
          ELSE IF bc_dt(dtstart_prop).raised THEN bc_dt(dtstart_prop)
          ELSE IF bc_dt(dtend_prop).raised THEN bc_dt(dtend_prop)
          ELSE LET dtstart == bc_normalize(bc_dt(dtstart_prop).val)
                   dtend == bc_normalize(bc_dt(dtend_prop).val)
               IN IF ~IsDate(dtstart) \/ ~IsDate(dtend) THEN rest
                  ELSE IF dtend.d <= dtstart.d THEN rest
                  ELSE IF rest.raised THEN rest
                  ELSE Ok(<< << dtstart.d, dtend.d >> >> \o rest.val)

\* key of events.sort: (start, end)
EventKey(e) == e[1] * (MaxDay + 1) + e[2]

\* the body of the loop over ics_map.items(): the events of one text
bc_parse_text(ics_text) ==
  IF ics_text.kind = "empty" THEN Ok(<< >>)
  ELSE LET cal == Calendar_from_ical(ics_text)
       IN IF cal.raised THEN cal
          ELSE LET events == bc_walk(cal.val)
               IN IF events.raised THEN events
                  ELSE Ok(Unkeyed(SortKeyed(Keyed(events.val, EventKey))))

\* booking_cleaner.py parse_bookings(ics_map): flat -> events, or the
\* exception of the first text that raises
RECURSIVE bc_parse_bookings(_)
bc_parse_bookings(ics_map) ==
  IF ics_map = << >> THEN Ok(<< >>)
  ELSE LET n == Len(ics_map)
           before == bc_parse_bookings(SubSeq(ics_map, 1, n - 1))
           events == bc_parse_text(ics_map[n].v)
       IN IF before.raised THEN before
          ELSE IF events.raised THEN events
          ELSE Ok(DictSet(before.val, ics_map[n].k, events.val))

\* mutant of AnyEnd: the start of the event compared instead of its end
AnyEnd_start(events, d) == \E i \in 1..Len(events) : events[i][1] = d

\* any(s == d for s, e in events), any(e == d for s, e in events)
AnyStart(events, d) == \E i \in 1..Len(events) : events[i][1] = d

AnyEnd(events, d) == \E i \in 1..Len(events) : events[i][2] = d

\* mutant of day_map_of: every flat is entered, whatever its flags
RECURSIVE day_map_of_all(_, _)
day_map_of_all(bookings, d) ==
  IF bookings = << >> THEN << >>
  ELSE LET n == Len(bookings)
       IN DictSet(day_map_of_all(SubSeq(bookings, 1, n - 1), d), bookings[n].k,
                  [check_in |-> AnyStart(bookings[n].v, d),
                   check_out |-> AnyEnd(bookings[n].v, d)])

\* the loop over bookings.items(): the day_map of day d
RECURSIVE day_map_of(_, _)
day_map_of(bookings, d) ==
  IF bookings = << >> THEN << >>
  ELSE LET n == Len(bookings)
           before == day_map_of(SubSeq(bookings, 1, n - 1), d)
           check_in == AnyStart(bookings[n].v, d)
           check_out == AnyEnd(bookings[n].v, d)
       IN IF check_in \/ check_out
          THEN DictSet(before, bookings[n].k,
                       [check_in |-> check_in, check_out |-> check_out])
          ELSE before

\* the loop over range(days), from i on
RECURSIVE days_from(_, _, _, _)
days_from(bookings, start, days, i) ==
  IF i >= days THEN << >>
  ELSE LET d == start + i
           day_map == day_map_of(bookings, d)
           rest == days_from(bookings, start, days, i + 1)
       IN IF day_map # << >> THEN << [k |-> d, v |-> day_map] >> \o rest
          ELSE rest

\* booking_cleaner.py build_schedule_for_days(bookings, start, days)
build_schedule_for_days(bookings, start, days) ==
  days_from(bookings, start, days, 0)

FlatKey(kv) == FlatRank(kv.k)

\* sorted(schedule.keys()) and sorted(schedule[d].items())
bc_sorted(schedule) ==
  LET byday == Unkeyed(SortKeyed(Keyed(schedule, DayKey)))
  IN [i \in 1..Len(byday) |->
        [k |-> byday[i].k, v |-> Unkeyed(SortKeyed(Keyed(byday[i].v, FlatKey)))]]

\* mutant of format_item: the check-out branch tested first
format_item_out_first(flags) ==
  IF flags.check_out THEN "out/clean"
  ELSE IF flags.check_in /\ flags.check_out THEN "out/clean/in"
  ELSE IF flags.check_in THEN "check-in"
  ELSE ""

\* the text format_schedule writes for one flat of a day ("" for none)
format_item(flags) ==
  IF flags.check_in /\ flags.check_out THEN "out/clean/in"
  ELSE IF flags.check_out THEN "out/clean"
  ELSE IF flags.check_in THEN "check-in"
  ELSE ""

RECURSIVE format_items(_)
format_items(kvs) ==
  IF kvs = << >> THEN << >>
  ELSE LET rest == format_items(Tail(kvs))
           txt == format_item(Head(kvs).v)
       IN IF txt # "" THEN << [flat |-> Head(kvs).k, text |-> txt] >> \o rest
          ELSE rest

RECURSIVE format_lines(_)
format_lines(sorted) ==
  IF sorted = << >> THEN << >>
  ELSE LET items == format_items(Head(sorted).v)
           rest == format_lines(Tail(sorted))
       IN IF items # << >> THEN << [day |-> Head(sorted).k, items |-> items] >> \o rest
          ELSE rest

\* booking_cleaner.py format_schedule: the "no check-ins" sentence, or one
\* line per day
format_schedule(schedule) ==
  IF schedule = << >> THEN [empty |-> TRUE, lines |-> << >>]
  ELSE [empty |-> FALSE, lines |-> format_lines(bc_sorted(schedule))]

\* the Action column schedule_to_rows writes
rows_action(flags) ==
  IF flags.check_in /\ flags.check_out THEN "Check-out / Clean / Check-in"
  ELSE IF flags.check_out THEN "Check-out / Clean"
  ELSE IF flags.check_in THEN "Check-in"
  ELSE ""

RECURSIVE rows_of(_)
rows_of(sorted) ==
  IF sorted = << >> THEN << >>
  ELSE [j \in 1..Len(Head(sorted).v) |->
          [day |-> Head(sorted).k, flat |-> Head(sorted).v[j].k,
           action |-> rows_action(Head(sorted).v[j].v)]]
       \o rows_of(Tail(sorted))

\* booking_cleaner.py schedule_to_rows: the rows below the header row
schedule_to_rows(schedule) == rows_of(bc_sorted(schedule))

\* --------------------------------------------------------------- state
VARIABLES
  feed,         \* url -> the calendar text the OTA serves there now
  stage,        \* "idle", or how far the observed run has come
  days,         \* the day count of the run
  failed,       \* app.py: the flats whose HTTP request did not succeed
  spans,        \* app.py build_schedule: flat -> its local `spans`
  schedule,     \* app.py: the result of build_schedule
  html,         \* app.py: the result of render_schedule
  ics_map,      \* booking_cleaner.py: flat -> fetched text
  bookings,     \* booking_cleaner.py: the result of parse_bookings
  bc_schedule,  \* booking_cleaner.py: the result of build_schedule_for_days
  bc_out,       \* booking_cleaner.py: what the presenter returned
  exc,          \* the exception that ended the run: [fn, type], "" for none
  req,          \* app.py: the locals of each /cleaner request in flight
  photo_queue,  \* app.py: the list stored in PHOTO_QUEUE_FILE
  wa,           \* WhatsApp: the 24h window and what has been sent so far
  proc,         \* app.py: the handler the event loop / a worker thread runs
  store,        \* app.py: the settings, the completion marks and the counter
  http          \* app.py: the counter request each worker thread runs

\* the state of the schedule runs
core_vars == << feed, stage, days, failed, spans, schedule, html,
                ics_map, bookings, bc_schedule, bc_out, exc >>
\* the state of the concurrent requests
req_vars == << req >>
\* the state of the WhatsApp queue
queue_vars == << photo_queue, wa, proc >>
\* the completion marks, the counter and the requests that change them
store_vars == << store, http >>

vars == << core_vars, req_vars, queue_vars, store_vars >>

app_vars == << failed, spans, schedule, html >>
bc_vars == << ics_map, bookings, bc_schedule, bc_out >>

NoHtml == [empty |-> FALSE, longer |-> 0, parts |-> << >>]
NoOut == [empty |-> FALSE, lines |-> << >>, rows |-> << >>]
NoExc == [fn |-> "", type |-> ""]

\* what a text counts for MaxEvents: its events, or one for a text that is
\* not empty and holds none
TextSize(text) ==
  IF text.kind = "empty" THEN 0
  ELSE IF text.events = << >> THEN 1
  ELSE Len(text.events)

RECURSIVE SumSize(_)
SumSize(urls) ==
  IF urls = {} THEN 0
  ELSE LET u == CHOOSE x \in urls : TRUE
       IN TextSize(feed[u]) + SumSize(urls \ {u})

FeedSize == SumSize(Urls)

\* the OTA lists the events of a calendar by start and end date, a boundary
\* without a date after (start) or before (end) the dated ones
EventRank(ev) ==
  (IF ev.dtstart.k \in {"date", "datetime"} THEN ev.dtstart.d ELSE MaxDay + 1)
     * (MaxDay + 2)
  + (IF ev.dtend.k \in {"date", "datetime"} THEN ev.dtend.d + 1 ELSE 0)

Locals0 ==
  /\ days = 0
  /\ failed = {}
  /\ spans = [f \in Flats |-> << >>]
  /\ schedule = << >>
  /\ html = NoHtml
  /\ ics_map = << >>
  /\ bookings = << >>
  /\ bc_schedule = << >>
  /\ bc_out = NoOut
  /\ exc = NoExc

\* the /cleaner requests that may be in flight together (server threads)
Reqs == {"r1", "r2"}

\* the locals of a request that has not started: n is the number of flats
\* the loop of build_schedule has done, got the text fetch_ics returned
\* for each of them, fetched_fail the flats whose HTTP request failed,
\* changed whether a feed changed since the request began
ReqIdle ==
  [pc |-> "idle", days |-> 0, n |-> 0, got |-> << >>, schedule |-> << >>,
   html |-> NoHtml, fetched_fail |-> {}, changed |-> FALSE]

\* the uploads of a day: caption -> media URLs (the second has no photo)
Uploads == ("a" :> << "m1", "m2" >>) @@ ("b" :> << >>)
Captions == DOMAIN Uploads

\* who runs handlers: the event loop (async def upload_submit and
\* wa_incoming, one at a time) and a worker thread (def queue_release)
Procs == {"loop", "thread"}

\* a process that runs no handler: q is the local list q, i the index of
\* the item being sent, j the index of its media, c the caption of the
\* upload
ProcIdle == [pc |-> "idle", q |-> << >>, i |-> 0, j |-> 0, c |-> ""]

\* WhatsApp at the start: the window is closed, nothing was sent;
\* freeform[c] is how the freeform send of upload c ended, template[c] the
\* number of template sends for it, attempts[c] the number of releases
\* that have tried to send the queued item c, delivered the messages
\* (caption, media index; 0 for a text) that have reached the user, direct
\* those of them a freeform send has delivered, released those a release
\* has delivered, cleared the captions POST /queue/clear has removed
Wa0 ==
  [window |-> FALSE,
   freeform |-> [c \in Captions |-> "none"],
   template |-> [c \in Captions |-> 0],
   attempts |-> [c \in Captions |-> 0],
   delivered |-> {},
   direct |-> {},
   released |-> {},
   cleared |-> {}]

\* the session cookie of a request (NoCookie: the request has none)
NoCookie == "<no cookie>"
Tokens == {NoCookie, "", "pw"}
\* the values of APP_PASSWORD and of COUNTER_PASSWORD, and the PINs of a form
Passwords == {"", "pw"}
Pins == {"", "pin"}

\* the flat names a form sends, character by character ("" is << >>), and
\* the days
FormFlats == {<< "7", " ", "A" >>, << "7", "_", "A" >>}
FormDays == {"d1", "d2"}

\* the flat and the date of the uploads of a day
UploadFlat == ("a" :> << "7", " ", "A" >>) @@ ("b" :> << "7", "_", "A" >>)
UploadDay == ("a" :> "d1") @@ ("b" :> "d2")

\* the worker threads that run POST /counter/update, one request each
Threads == {"t1", "t2", "t3"}
\* a thread before its request: off is the offset _db_get_offset returned
\* to bump_counter, delta its argument, token the cookie of the request
ThreadIdle == [pc |-> "idle", off |-> 0, delta |-> 0, token |-> NoCookie]
\* a thread whose request has been answered
ThreadDone == [ThreadIdle EXCEPT !.pc = "done"]

\* the process before app.py is loaded: no completion mark in the table
\* completed_cleans (rows) nor in MARK_DIR (files), the counter file and
\* the row of counter_offset at 0; done are the (flat, day) for which
\* set_completed has returned with no clear_completed over them since,
\* bumps the bump_counter(1) calls that have returned
Store0 ==
  [pc |-> "off", USE_DB |-> FALSE, APP_PASSWORD |-> "", COUNTER_PASSWORD |-> "",
   rows |-> {}, files |-> {}, count |-> 0, offset |-> 0, done |-> {}, bumps |-> 0]

Http0 == [t \in Threads |-> ThreadIdle]

Init ==
  /\ feed = [u \in Urls |-> EmptyText]
  /\ stage = "idle"
  /\ Locals0
  /\ req = [r \in Reqs |-> ReqIdle]
  /\ photo_queue = << >>
  /\ wa = Wa0
  /\ proc = [p \in Procs |-> ProcIdle]
  /\ store = Store0
  /\ http = Http0

\* the OTA adds a booking to the calendar of one flat
FeedPublish(url, ev) ==
  /\ stage = "idle"
  /\ LET evs == feed[url].events
     IN /\ evs # << >> => EventRank(evs[Len(evs)]) <= EventRank(ev)
        /\ FeedSize + (IF evs = << >> /\ feed[url].kind # "empty" THEN 0 ELSE 1)
             <= MaxEvents
        /\ feed' = [feed EXCEPT ![url] = CalText(Append(evs, ev))]
  /\ UNCHANGED << stage, days, failed, spans, schedule, html,
                  ics_map, bookings, bc_schedule, bc_out, exc >>
  /\ UNCHANGED << req_vars, queue_vars, store_vars >>

\* the OTA serves, for a flat without bookings, a blank or corrupt text or
\* a calendar without events
FeedReplace(url, text) ==
  /\ stage = "idle"
  /\ feed[url].events = << >>
  /\ feed[url] # text
  /\ FeedSize + (IF feed[url].kind = "empty" THEN 1 ELSE 0) <= MaxEvents
  /\ feed' = [feed EXCEPT ![url] = text]
  /\ UNCHANGED << stage, days, failed, spans, schedule, html,
                  ics_map, bookings, bc_schedule, bc_out, exc >>
  /\ UNCHANGED << req_vars, queue_vars, store_vars >>

\* the run is over: its locals are gone
EndRun ==
  /\ stage # "idle"
  /\ stage' = "idle"
  /\ days' = 0
  /\ failed' = {}
  /\ spans' = [f \in Flats |-> << >>]
  /\ schedule' = << >>
  /\ html' = NoHtml
  /\ ics_map' = << >>
  /\ bookings' = << >>
  /\ bc_schedule' = << >>
  /\ bc_out' = NoOut
  /\ exc' = NoExc
  /\ UNCHANGED feed
  /\ UNCHANGED << req_vars, queue_vars, store_vars >>

UrlOf(flat_name) == DictGet(load_flats, flat_name).url

\* app.py GET /cleaner?days=n of a logged-in user: build_schedule(days)
\* with start = today, then render_schedule; the HTTP request for `flat`
\* ends as `outcome` says, the requests for the other flats succeed
Cleaner(n, flat, outcome) ==
  /\ stage = "idle"
  /\ LET oc(f) == IF f = flat THEN outcome ELSE "ok"
         text(f) == fetch_ics(UrlOf(f), requests_get(feed[UrlOf(f)], oc(f)))
         sp == [f \in Flats |-> parse_bookings(text(f))]
         sched == build_schedule(n, Today, sp)
     IN /\ spans' = sp
        /\ schedule' = sched
        /\ html' = render_schedule(sched, n)
  /\ failed' = {f \in Flats : f = flat /\ outcome # "ok"}
  /\ days' = n
  /\ stage' = "served"
  /\ UNCHANGED << feed, ics_map, bookings, bc_schedule, bc_out, exc >>
  /\ UNCHANGED << req_vars, queue_vars, store_vars >>

\* booking_cleaner.py fetch_ics for the next flat of the configuration
BcFetchIcs(outcome) ==
  /\ stage \in {"idle", "fetching"}
  /\ Len(ics_map) < Len(FlatEnv)
  /\ LET flat == FlatEnv[Len(ics_map) + 1]
         served == IF flat.url = "" THEN EmptyText ELSE feed[flat.url]
         r == bc_fetch_ics(flat.url, requests_get(served, outcome))
     IN IF r.raised
        THEN /\ stage' = "raised"
             /\ exc' = [fn |-> "fetch_ics", type |-> r.val]
             /\ ics_map' = << >>
        ELSE /\ stage' = "fetching"
             /\ ics_map' = DictSet(ics_map, flat.name, r.val)
             /\ UNCHANGED exc
  /\ UNCHANGED << feed, days, failed, spans, schedule, html,
                  bookings, bc_schedule, bc_out >>
  /\ UNCHANGED << req_vars, queue_vars, store_vars >>

\* booking_cleaner.py parse_bookings on the fetched texts
BcParseBookings ==
  /\ stage = "fetching"
  /\ Len(ics_map) = Len(FlatEnv)
  /\ LET r == bc_parse_bookings(ics_map)
     IN IF r.raised
        THEN /\ stage' = "raised"
             /\ exc' = [fn |-> "parse_bookings", type |-> r.val]
             /\ UNCHANGED bookings
        ELSE /\ stage' = "parsed"
             /\ bookings' = r.val
             /\ UNCHANGED exc
  /\ UNCHANGED << feed, days, failed, spans, schedule, html,
                  ics_map, bc_schedule, bc_out >>
  /\ UNCHANGED << req_vars, queue_vars, store_vars >>

\* booking_cleaner.py build_schedule_for_days(bookings, today, n)
BcBuildSchedule(n) ==
  /\ stage = "parsed"
  /\ bc_schedule' = build_schedule_for_days(bookings, Today, n)
  /\ days' = n
  /\ stage' = "built"
  /\ UNCHANGED << feed, failed, spans, schedule, html,
                  ics_map, bookings, bc_out, exc >>
  /\ UNCHANGED << req_vars, queue_vars, store_vars >>

\* booking_cleaner.py format_schedule(schedule)
BcFormatSchedule ==
  /\ stage = "built"
  /\ LET r == format_schedule(bc_schedule)
     IN bc_out' = [empty |-> r.empty, lines |-> r.lines, rows |-> << >>]
  /\ stage' = "formatted"
  /\ UNCHANGED << feed, days, failed, spans, schedule, html,
                  ics_map, bookings, bc_schedule, exc >>
  /\ UNCHANGED << req_vars, queue_vars, store_vars >>

\* booking_cleaner.py schedule_to_rows(schedule)
BcScheduleToRows ==
  /\ stage = "built"
  /\ bc_out' = [empty |-> FALSE, lines |-> << >>, rows |-> schedule_to_rows(bc_schedule)]
  /\ stage' = "rows"
  /\ UNCHANGED << feed, days, failed, spans, schedule, html,
                  ics_map, bookings, bc_schedule, exc >>
  /\ UNCHANGED << req_vars, queue_vars, store_vars >>

Next ==
  \/ \E url \in Urls, ev \in EventSet : FeedPublish(url, ev)
  \/ \E url \in Urls, text \in {BlankText, GarbageText, CalText(<< >>)} :
        FeedReplace(url, text)
  \/ \E n \in DayCounts, flat \in Flats, outcome \in HttpOutcomes :
        Cleaner(n, flat, outcome)
  \/ \E outcome \in HttpOutcomes : BcFetchIcs(outcome)
  \/ BcParseBookings
  \/ \E n \in DayCounts : BcBuildSchedule(n)
  \/ BcFormatSchedule
  \/ BcScheduleToRows
  \/ EndRun

Spec == Init /\ [][Next]_vars

\* ------------------------------------------------------------- readings
\* the days of the window [start, start + n)
Window(start, n) == {start + i : i \in 0..(n - 1)}

Range(seq) == {seq[i] : i \in 1..Len(seq)}

AppDone == stage = "served"
BcBuilt == stage \in {"built", "formatted", "rows"}

\* the entries (day, flat, check_in, check_out) of app.py's schedule
AppEntries ==
  UNION {{[day |-> schedule[i].k, flat |-> schedule[i].v[j].flat,
           check_in |-> schedule[i].v[j].in,
           check_out |-> schedule[i].v[j].out] : j \in 1..Len(schedule[i].v)} :
         i \in 1..Len(schedule)}

Entries(sched) ==
  UNION {{[day |-> sched[i].k, flat |-> sched[i].v[j].k,
           check_in |-> sched[i].v[j].v.check_in,
           check_out |-> sched[i].v[j].v.check_out] : j \in 1..Len(sched[i].v)} :
         i \in 1..Len(sched)}

\* the entries of booking_cleaner.py's schedule
BcEntries == Entries(bc_schedule)

\* the stay intervals of a flat the builder was given
AppIntervals(u) == Range(spans[u])
BcIntervals(u) == IF DictHas(bookings, u) THEN Range(DictGet(bookings, u)) ELSE {}
BcFlats == DictKeys(bookings)

\* what a set of entries reports for (d, u)
ReportsIn(entries, d, u) == \E e \in entries : e.day = d /\ e.flat = u /\ e.check_in
ReportsOut(entries, d, u) == \E e \in entries : e.day = d /\ e.flat = u /\ e.check_out

\* --------------------------------------------------------------- claims
\* C1: for every day d of the window and every unit u, the built schedule
\* reports check_in for (d, u) exactly when some stay interval of u has
\* check_in = d, and check_out exactly when some stay interval of u has
\* check_out = d; both for build_schedule and build_schedule_for_days.
C1_FlagsMatchIntervals ==
  /\ AppDone =>
       \A d \in Window(Today, days), u \in Flats :
         /\ ReportsIn(AppEntries, d, u) <=> \E iv \in AppIntervals(u) : iv[1] = d
         /\ ReportsOut(AppEntries, d, u) <=> \E iv \in AppIntervals(u) : iv[2] = d
  /\ BcBuilt =>
       \A d \in Window(Today, days), u \in BcFlats :
         /\ ReportsIn(BcEntries, d, u) <=> \E iv \in BcIntervals(u) : iv[1] = d
         /\ ReportsOut(BcEntries, d, u) <=> \E iv \in BcIntervals(u) : iv[2] = d

\* C1 witness: build_schedule_for_days has reported a check-in on one day
\* of the window and the check-out of the same stay on a later day
C1_Witness ==
  /\ BcBuilt
  /\ \E u \in BcFlats : \E iv \in BcIntervals(u) :
       /\ iv[1] \in Window(Today, days) /\ iv[2] \in Window(Today, days)
       /\ ReportsIn(BcEntries, iv[1], u) /\ ~ReportsOut(BcEntries, iv[1], u)
       /\ ReportsOut(BcEntries, iv[2], u) /\ ~ReportsIn(BcEntries, iv[2], u)

\* C2: every stay interval parse_bookings returns has check_out > check_in
\* (an event whose end is on or before its start is left out), in app.py
\* and in booking_cleaner.py.
C2_IntervalsArePositive ==
  /\ AppDone => \A u \in Flats : \A iv \in AppIntervals(u) : iv[2] > iv[1]
  /\ stage = "parsed" => \A u \in BcFlats : \A iv \in BcIntervals(u) : iv[2] > iv[1]

\* a text that is empty, blank or unparsable
BadText(text) == text.kind \in {"empty", "blank", "garbage"}

\* C3: for an empty, whitespace-only or unparsable calendar text,
\* parse_bookings returns an empty list and raises nothing.
C3_BadTextYieldsEmptyList ==
  /\ AppDone => \A u \in Flats : BadText(feed[UrlOf(u)]) => spans[u] = << >>
  /\ ~(stage = "raised" /\ exc.fn = "parse_bookings" /\ exc.type = "ValueError")
  /\ stage = "parsed" =>
       \A i \in 1..Len(ics_map) :
         BadText(ics_map[i].v) => DictGet(bookings, ics_map[i].k) = << >>

\* C4: the built schedule holds no day without units and no unit entry
\* whose check_in and check_out are both false.
C4_NoEmptyDayNoEmptyEntry ==
  /\ AppDone =>
       /\ \A i \in 1..Len(schedule) : schedule[i].v # << >>
       /\ \A e \in AppEntries : e.check_in \/ e.check_out
  /\ BcBuilt =>
       /\ \A i \in 1..Len(bc_schedule) : bc_schedule[i].v # << >>
       /\ \A e \in BcEntries : e.check_in \/ e.check_out

\* C4 witness: build_schedule_for_days has built a schedule that leaves out
\* a day of the window and, on a day it holds, a flat of the bookings map
C4_Witness ==
  /\ BcBuilt
  /\ bc_schedule # << >>
  /\ \E d \in Window(Today, days) : d \notin DictKeys(bc_schedule)
  /\ \E i \in 1..Len(bc_schedule), u \in BcFlats :
       ~DictHas(bc_schedule[i].v, u)

\* the intervals with a boundary in the window [start, start + n)
RECURSIVE Touching(_, _, _)
Touching(ivs, start, n) ==
  IF ivs = << >> THEN << >>
  ELSE (IF Head(ivs)[1] \in Window(start, n) \/ Head(ivs)[2] \in Window(start, n)
        THEN << Head(ivs) >> ELSE << >>)
       \o Touching(Tail(ivs), start, n)

\* C5: every day of the built schedule lies in [D, D + N) for start date D
\* and day count N, so the schedule is empty when N <= 0; and an interval
\* with both boundaries outside [D, D + N) adds no entry and changes no
\* flag (the schedule is the one built without such intervals).
C5_OnlyTheWindow ==
  /\ AppDone =>
       /\ DictKeys(schedule) \subseteq Window(Today, days)
       /\ days <= 0 => schedule = << >>
       /\ schedule = build_schedule(days, Today,
                        [u \in Flats |-> Touching(spans[u], Today, days)])
  /\ BcBuilt =>
       /\ DictKeys(bc_schedule) \subseteq Window(Today, days)
       /\ days <= 0 => bc_schedule = << >>
       /\ bc_schedule = build_schedule_for_days(
            [i \in 1..Len(bookings) |->
               [k |-> bookings[i].k, v |-> Touching(bookings[i].v, Today, days)]],
            Today, days)

\* C5 witness: build_schedule was given an interval that starts before the
\* window and ends after it, next to one that puts an entry in the window
C5_Witness ==
  /\ AppDone
  /\ days >= 1
  /\ schedule # << >>
  /\ \E u \in Flats : \E iv \in AppIntervals(u) :
       iv[1] < Today /\ iv[2] >= Today + days

\* the labels of the table label(flags)
Label(check_in, check_out) ==
  IF check_in /\ check_out THEN "SAME_DAY_TURNOVER"
  ELSE IF check_out THEN "CHECK_OUT"
  ELSE IF check_in THEN "CHECK_IN"
  ELSE "NONE"

\* the status a row of render_schedule shows
RowStatus(row) ==
  IF row.turn = "SAME-DAY TURNAROUND" /\ row.status_bits = << "Check-out" >>
    THEN "SAME_DAY_TURNOVER"
  ELSE IF row.turn = "" /\ row.status_bits = << "Check-out" >> THEN "CHECK_OUT"
  ELSE IF row.turn = "" /\ row.status_bits = << "Check-in" >> THEN "CHECK_IN"
  ELSE "NONE"

\* the status an item of a line of format_schedule shows
TextStatus(text) ==
  IF text = "out/clean/in" THEN "SAME_DAY_TURNOVER"
  ELSE IF text = "out/clean" THEN "CHECK_OUT"
  ELSE IF text = "check-in" THEN "CHECK_IN"
  ELSE "NONE"

\* the status the Action column of schedule_to_rows shows
ActionStatus(action) ==
  IF action = "Check-out / Clean / Check-in" THEN "SAME_DAY_TURNOVER"
  ELSE IF action = "Check-out / Clean" THEN "CHECK_OUT"
  ELSE IF action = "Check-in" THEN "CHECK_IN"
  ELSE "NONE"

\* what each presenter shows: (day, flat, status)
HtmlShown ==
  UNION {{[day |-> r.day, flat |-> r.flat, status |-> RowStatus(r)] :
            r \in Range(html.parts[i].rows)} : i \in 1..Len(html.parts)}
TextShown ==
  UNION {{[day |-> bc_out.lines[i].day, flat |-> it.flat, status |-> TextStatus(it.text)] :
            it \in Range(bc_out.lines[i].items)} : i \in 1..Len(bc_out.lines)}
RowsShown ==
  {[day |-> r.day, flat |-> r.flat, status |-> ActionStatus(r.action)] :
     r \in Range(bc_out.rows)}

\* some interval of the list ends on d and another one starts on d
Turnover(ivs, d) ==
  \E i \in 1..Len(ivs), j \in 1..Len(ivs) : i # j /\ ivs[i][2] = d /\ ivs[j][1] = d

TurnoverShown(shown, d, u) ==
  \A x \in shown : (x.day = d /\ x.flat = u) => x.status = "SAME_DAY_TURNOVER"

\* C6: when one interval of a unit ends on the day d another interval of
\* the unit starts, and d is in the window, the unit's entry on d has
\* check_in and check_out true, and render_schedule, format_schedule and
\* schedule_to_rows each show it as a same-day turnover.
C6_SameDayTurnover ==
  /\ AppDone =>
       \A u \in Flats, d \in Window(Today, days) :
         Turnover(spans[u], d) =>
           /\ ReportsIn(AppEntries, d, u) /\ ReportsOut(AppEntries, d, u)
           /\ \E x \in HtmlShown : x.day = d /\ x.flat = u
           /\ TurnoverShown(HtmlShown, d, u)
  /\ BcBuilt =>
       \A u \in BcFlats, d \in Window(Today, days) :
         Turnover(DictGet(bookings, u), d) =>
           /\ ReportsIn(BcEntries, d, u) /\ ReportsOut(BcEntries, d, u)
           /\ stage = "formatted" =>
                /\ \E x \in TextShown : x.day = d /\ x.flat = u
                /\ TurnoverShown(TextShown, d, u)
           /\ stage = "rows" =>
                /\ \E x \in RowsShown : x.day = d /\ x.flat = u
                /\ TurnoverShown(RowsShown, d, u)

\* C6 witness: /cleaner has rendered a day on which one stay of a flat ends
\* and the next one starts
C6_Witness ==
  /\ AppDone
  /\ \E u \in Flats, d \in Window(Today, days) :
       /\ Turnover(spans[u], d)
       /\ \A iv \in AppIntervals(u) : iv[1] < iv[2]
       /\ \E x \in HtmlShown : x.day = d /\ x.flat = u /\ x.status = "SAME_DAY_TURNOVER"

\* what the table gives for a set of entries
Labelled(entries) ==
  {[day |-> e.day, flat |-> e.flat, status |-> Label(e.check_in, e.check_out)] :
     e \in entries}

\* C7: render_schedule, format_schedule and schedule_to_rows each show, for
\* every unit-day of the schedule, exactly the status of the table
\* (check_in only: check-in, check_out only: check-out, both: same-day
\* turnover): none shows check-in for a unit-day with check_out true, and
\* no two of them differ on a flag pair.
C7_OneLabelTable ==
  /\ AppDone =>
       /\ HtmlShown = Labelled(AppEntries)
       /\ \A i \in 1..Len(html.parts) : \A r \in Range(html.parts[i].rows) :
            (\E e \in AppEntries : e.day = r.day /\ e.flat = r.flat /\ e.check_out)
              => \A k \in 1..Len(r.status_bits) : r.status_bits[k] # "Check-in"
  /\ stage = "formatted" => TextShown = Labelled(BcEntries)
  /\ stage = "rows" => RowsShown = Labelled(BcEntries)

\* C7 witness: format_schedule has written a same-day turnover and a
\* check-out
C7_Witness ==
  /\ stage = "formatted"
  /\ \E x \in TextShown, y \in TextShown :
       x.status = "SAME_DAY_TURNOVER" /\ y.status = "CHECK_OUT"

\* C8: fetch_ics raises nothing: for an empty URL, a timeout, a network
\* error or a non-2xx response it returns "" (app.py and booking_cleaner.py).
C8_FetchNeverRaises ==
  /\ AppDone => \A u \in failed : spans[u] = << >>
  /\ ~(stage = "raised" /\ exc.fn = "fetch_ics")

\* the exceptions of a failed fetch or an unparsable text
FetchOrTextErrors == {"timeout", "network_error", "HTTPError", "ValueError"}

\* C9: in a run over several units, a unit whose fetch fails, times out,
\* returns "" or returns unparsable text contributes no entry, the entries
\* of the other units are what they are without it, and the run ends
\* without an exception.
C9_FailureIsIsolated ==
  /\ AppDone =>
       \A u \in Flats :
         (u \in failed \/ BadText(feed[UrlOf(u)])) =>
           /\ \A e \in AppEntries : e.flat # u
           /\ schedule = build_schedule(days, Today, [spans EXCEPT ![u] = << >>])
  /\ ~(stage = "raised" /\ exc.type \in FetchOrTextErrors)

\* an event both parsers have to keep: two dates, the end after the start
Dated(v) == v.k \in {"date", "datetime"}
KeptEvent(ev) == Dated(ev.dtstart) /\ Dated(ev.dtend) /\ ev.dtstart.d < ev.dtend.d

\* C10: within one calendar, a VEVENT without DTSTART or DTEND, or with a
\* boundary that is no date, is dropped alone: every well-formed event of
\* the calendar is still in the parser's output, and the parser does not
\* raise.
C10_BadEventDroppedAlone ==
  /\ AppDone =>
       \A u \in Flats : u \notin failed =>
         \A ev \in Range(feed[UrlOf(u)].events) :
           KeptEvent(ev) => << ev.dtstart.d, ev.dtend.d >> \in AppIntervals(u)
  /\ stage = "parsed" =>
       \A i \in 1..Len(ics_map) : \A ev \in Range(ics_map[i].v.events) :
         KeptEvent(ev) => << ev.dtstart.d, ev.dtend.d >> \in BcIntervals(ics_map[i].k)
  /\ ~(stage = "raised" /\ exc.fn = "parse_bookings" /\ exc.type = "AttributeError")

\* a list of intervals with a copy of its i-th interval put at position p
WithDuplicate(ivs, i, p) ==
  SubSeq(ivs, 1, p - 1) \o << ivs[i] >> \o SubSeq(ivs, p, Len(ivs))

\* the number of items of a day that belong to flat u
CountOf(items, u) == Cardinality({j \in 1..Len(items) : items[j].flat = u})

\* C11: duplicate or overlapping intervals of a unit are not counted twice:
\* a day of the schedule holds at most one entry per unit, and the
\* schedule built with a copy of one of the unit's intervals added to the
\* input (before or after the others) is the schedule built without it.
C11_NoDoubleCount ==
  /\ AppDone =>
       /\ \A i \in 1..Len(schedule) : \A u \in Flats : CountOf(schedule[i].v, u) <= 1
       /\ \A u \in Flats : \A i \in 1..Len(spans[u]) : \A p \in {1, Len(spans[u]) + 1} :
            build_schedule(days, Today,
                           [spans EXCEPT ![u] = WithDuplicate(spans[u], i, p)])
              = schedule
  /\ BcBuilt =>
       /\ \A i \in 1..Len(bc_schedule) : \A u \in BcFlats :
            Cardinality({j \in 1..Len(bc_schedule[i].v) : bc_schedule[i].v[j].k = u}) <= 1
       /\ \A k \in 1..Len(bookings) : \A i \in 1..Len(bookings[k].v) :
            \A p \in {1, Len(bookings[k].v) + 1} :
              build_schedule_for_days(
                [bookings EXCEPT ![k].v = WithDuplicate(bookings[k].v, i, p)],
                Today, days) = bc_schedule

\* C11 witness: /cleaner has built a day's entry for a flat whose calendar
\* holds the same stay twice
C11_Witness ==
  /\ AppDone
  /\ \E u \in Flats : \E i \in 1..Len(spans[u]), j \in 1..Len(spans[u]) :
       /\ i # j
       /\ spans[u][i] = spans[u][j]
       /\ spans[u][i][1] < spans[u][i][2]
       /\ \E e \in AppEntries : e.flat = u /\ e.day = spans[u][i][2]

Reverse(s) == [i \in 1..Len(s) |-> s[Len(s) + 1 - i]]

\* a configuration of two flats whose names differ in case only, and the
\* spans of the two calendars as theirs
TwinFlats ==
  << [k |-> "Flat 8", v |-> [url |-> "https://ota/7.ics"]],
     [k |-> "flat 8", v |-> [url |-> "https://ota/8.ics"]] >>
TwinSpans == ("Flat 8" :> spans["Flat 7"]) @@ ("flat 8" :> spans["Flat 8"])

\* C12: the built schedule is a function of the intervals and the window
\* alone: it is the same whatever the order in which the units are
\* iterated and their calendars fetched (app.py: the same list of days and
\* of entries per day; booking_cleaner.py: the same mapping and the same
\* text).
C12_OrderIndependent ==
  /\ AppDone =>
       /\ build_with(Reverse(load_flats), days, Today, spans) = schedule
       /\ build_with(Reverse(TwinFlats), days, Today, TwinSpans)
            = build_with(TwinFlats, days, Today, TwinSpans)
  /\ BcBuilt =>
       /\ Entries(build_schedule_for_days(Reverse(bookings), Today, days)) = BcEntries
       /\ format_schedule(build_schedule_for_days(Reverse(bookings), Today, days))
            = format_schedule(bc_schedule)

\* the events of the calendar a flat's URL serves / of the text fetched
FeedEvents(u) == Range(feed[UrlOf(u)].events)
FetchedEvents(u) == Range(DictGet(ics_map, u).events)

\* C13: the check-out day of a stay is the date its DTEND carries, not the
\* day before: an event with DTSTART s and DTEND e > s is parsed as
\* (s, e) and gives a check-out flag on day e, and a unit has a check-out
\* flag on no day that is not the DTEND date of one of its events.
C13_CheckOutIsDtend ==
  /\ AppDone =>
       \A u \in Flats \ failed :
         /\ \A ev \in FeedEvents(u) : KeptEvent(ev) =>
              /\ << ev.dtstart.d, ev.dtend.d >> \in AppIntervals(u)
              /\ ev.dtend.d \in Window(Today, days) =>
                   ReportsOut(AppEntries, ev.dtend.d, u)
         /\ \A d \in Window(Today, days) : ReportsOut(AppEntries, d, u) =>
              \E ev \in FeedEvents(u) :
                Dated(ev.dtstart) /\ Dated(ev.dtend) /\ ev.dtend.d = d
  /\ BcBuilt =>
       \A u \in BcFlats :
         /\ \A ev \in FetchedEvents(u) : KeptEvent(ev) =>
              /\ << ev.dtstart.d, ev.dtend.d >> \in BcIntervals(u)
              /\ ev.dtend.d \in Window(Today, days) =>
                   ReportsOut(BcEntries, ev.dtend.d, u)
         /\ \A d \in Window(Today, days) : ReportsOut(BcEntries, d, u) =>
              \E ev \in FetchedEvents(u) : KeptEvent(ev) /\ ev.dtend.d = d

\* C13 witness: /cleaner shows the check-out of a stay of several nights on
\* the day of its DTEND
C13_Witness ==
  /\ AppDone
  /\ \E u \in Flats \ failed : \E ev \in FeedEvents(u) :
       /\ KeptEvent(ev)
       /\ ev.dtend.d > ev.dtstart.d + 1
       /\ ReportsOut(AppEntries, ev.dtend.d, u)
       /\ ~ReportsOut(AppEntries, ev.dtend.d - 1, u)

\* an event with two dates or date-times whose local dates are a stay
LocalStay(ev) == Dated(ev.dtstart) /\ Dated(ev.dtend) /\ ev.dtstart.ld < ev.dtend.ld

\* C14: a DTSTART or DTEND given as a date-time is parsed as the date the
\* instant has in TIMEZONE: the interval of an event is (local date of
\* DTSTART, local date of DTEND), in app.py and in booking_cleaner.py.
C14_LocalDate ==
  /\ AppDone =>
       \A u \in Flats \ failed : \A ev \in FeedEvents(u) :
         LocalStay(ev) => << ev.dtstart.ld, ev.dtend.ld >> \in AppIntervals(u)
  /\ stage = "parsed" =>
       \A u \in BcFlats : \A ev \in FetchedEvents(u) :
         LocalStay(ev) => << ev.dtstart.ld, ev.dtend.ld >> \in BcIntervals(u)

\* C15: the day count the /cleaner route hands to build_schedule is in a
\* sane range; of that range the lower end is checked here: a request for
\* zero or a negative number of days is rejected or gets a safe default
\* before build_schedule runs, so build_schedule never gets less than 1.
C15_DayCountInRange == AppDone => days >= 1

\* the rows render_schedule has written
HtmlRows == UNION {Range(html.parts[i].rows) : i \in 1..Len(html.parts)}

\* C17: render_schedule shows the cleaning prompt and the photo-upload
\* link on the row of a unit-day exactly when its check_out flag is true
\* (check-out or same-day turnover), never on a check-in-only row.
C17_CleanPromptIffCheckOut ==
  AppDone =>
    /\ \A e \in AppEntries : \E r \in HtmlRows : r.day = e.day /\ r.flat = e.flat
    /\ \A r \in HtmlRows : \A e \in AppEntries :
         (r.day = e.day /\ r.flat = e.flat) =>
           /\ r.clean_html = e.check_out
           /\ r.btn = e.check_out

\* C17 witness: the page holds a check-in-only row without the prompt and
\* the link, and a check-out row with both
C17_Witness ==
  /\ AppDone
  /\ \E e \in AppEntries : e.check_in /\ ~e.check_out
  /\ \E r \in HtmlRows : ~r.clean_html /\ ~r.btn
  /\ \E r \in HtmlRows : r.clean_html /\ r.btn

\* C18: for an empty schedule render_schedule says that no activity was
\* found and offers a link to a window of more days than the days just
\* requested, whatever that number is.
C18_EmptyOffersLonger ==
  (AppDone /\ schedule = << >>) => (html.empty /\ html.longer > days)

\* ------------------------------------------- concurrent /cleaner requests
\* the day counts of the concurrent requests
ReqDays == {1, MaxDay}

\* the calendars the OTA serves while requests are in flight
ReqTexts ==
  {EmptyText,
   CalText(<< [dtstart |-> DateV(0), dtend |-> DateV(Today)] >>),
   CalText(<< [dtstart |-> DateV(Today), dtend |-> DateV(MaxDay)] >>)}

\* the OTA changes the calendar of a flat, whatever the requests are doing
ReqFeedChange(url, text) ==
  /\ feed[url] # text
  /\ feed' = [feed EXCEPT ![url] = text]
  /\ req' = [r \in Reqs |->
               IF req[r].pc = "idle" THEN req[r] ELSE [req[r] EXCEPT !.changed = TRUE]]
  /\ UNCHANGED << stage, days, failed, spans, schedule, html,
                  ics_map, bookings, bc_schedule, bc_out, exc >>
  /\ UNCHANGED << queue_vars, store_vars >>

\* cleaner(days) calls build_schedule(days): schedule = {}
ReqStart(r, n) ==
  /\ req[r].pc = "idle"
  /\ req' = [req EXCEPT ![r] = [ReqIdle EXCEPT !.pc = "building", !.days = n]]
  /\ UNCHANGED << feed, stage, days, failed, spans, schedule, html,
                  ics_map, bookings, bc_schedule, bc_out, exc >>
  /\ UNCHANGED << queue_vars, store_vars >>

\* mutant of req_fetch: a text another request has fetched is used again
req_fetch_cached(others, url, resp) ==
  IF others # {} THEN CHOOSE t \in others : TRUE ELSE fetch_ics(url, resp)

\* fetch_ics(meta["url"]) of a request; others are the texts the other
\* requests have got for the flat, which the call does not see
req_fetch(others, url, resp) == fetch_ics(url, resp)

\* the texts requests other than r have got for a flat
OthersFetched(r, flat_name) ==
  {DictGet(req[o].got, flat_name) :
     o \in {x \in Reqs \ {r} : DictHas(req[x].got, flat_name)}}

\* one turn of the loop over flats.items() of build_schedule in request r
ReqFlat(r, outcome) ==
  /\ req[r].pc = "building"
  /\ req[r].n < Len(load_flats)
  /\ LET flat == load_flats[req[r].n + 1]
         start == Today
         end == start + (req[r].days - 1)
         text == req_fetch(OthersFetched(r, flat.k), flat.v.url,
                           requests_get(feed[flat.v.url], outcome))
         per_day == per_day_of(parse_bookings(text), start, end, << >>)
     IN req' = [req EXCEPT
                  ![r].n = @ + 1,
                  ![r].got = DictSet(@, flat.k, text),
                  ![r].schedule = add_flat(@, flat.k, per_day),
                  ![r].fetched_fail =
                     IF outcome = "ok" THEN @ ELSE @ \cup {flat.k}]
  /\ UNCHANGED << feed, stage, days, failed, spans, schedule, html,
                  ics_map, bookings, bc_schedule, bc_out, exc >>
  /\ UNCHANGED << queue_vars, store_vars >>

\* build_schedule sorts and returns, cleaner renders the page
ReqReturn(r) ==
  /\ req[r].pc = "building"
  /\ req[r].n = Len(load_flats)
  /\ LET sched == sort_schedule(req[r].schedule)
     IN req' = [req EXCEPT ![r].pc = "served",
                           ![r].schedule = sched,
                           ![r].html = render_schedule(sched, req[r].days)]
  /\ UNCHANGED << feed, stage, days, failed, spans, schedule, html,
                  ics_map, bookings, bc_schedule, bc_out, exc >>
  /\ UNCHANGED << queue_vars, store_vars >>

\* the response is sent and the locals of the request are gone
ReqEnd(r) ==
  /\ req[r].pc = "served"
  /\ req' = [req EXCEPT ![r] = ReqIdle]
  /\ UNCHANGED << feed, stage, days, failed, spans, schedule, html,
                  ics_map, bookings, bc_schedule, bc_out, exc >>
  /\ UNCHANGED << queue_vars, store_vars >>

ReqNext ==
  \/ \E url \in Urls, text \in ReqTexts : ReqFeedChange(url, text)
  \/ \E r \in Reqs, n \in ReqDays : ReqStart(r, n)
  \/ \E r \in Reqs, outcome \in HttpOutcomes : ReqFlat(r, outcome)
  \/ \E r \in Reqs : ReqReturn(r)
  \/ \E r \in Reqs : ReqEnd(r)

ReqSpec == Init /\ [][ReqNext]_vars

\* ------------------------------------------------ the /cleaner route
\* GET /cleaner with any query, one request at a time, over the calendars
\* of ReqTexts
RouteFeedChange(url, text) ==
  /\ stage = "idle"
  /\ ReqFeedChange(url, text)

RouteNext ==
  \/ \E url \in Urls, text \in ReqTexts : RouteFeedChange(url, text)
  \/ \E q \in Requests, flat \in Flats, outcome \in HttpOutcomes :
        Cleaner(cleaner_days(q), flat, outcome)
  \/ EndRun

RouteSpec == Init /\ [][RouteNext]_vars

\* ------------------------------------------------------ WhatsApp queue
\* the messages a send of (caption, media_urls) consists of: one per
\* media URL, or one text (index 0) when there is no media
Messages(c, media_urls) ==
  IF media_urls = << >> THEN {[c |-> c, idx |-> 0]}
  ELSE {[c |-> c, idx |-> j] : j \in 1..Len(media_urls)}

\* the item _queue_item builds (the time stamp left out)
queue_item(caption, media_urls) == [caption |-> caption, media_urls |-> media_urls]

\* how a messages.create call of a freeform send may end: delivered only
\* inside the 24h window, error 63016 only outside, any other error always
FreeformOutcomes == IF wa.window THEN {"ok", "error"} ELSE {"blocked", "error"}

\* the 24h window runs out
WindowExpires ==
  /\ wa.window
  /\ wa' = [wa EXCEPT !.window = FALSE]
  /\ UNCHANGED << core_vars, req_vars, store_vars, photo_queue, proc >>

\* upload_submit calls wa_send_text_and_media_or_queue(caption, media_urls,
\* details): one twilio_client.messages.create of the freeform send of
\* upload c (the first one begins the send, the loop over media_urls goes
\* on with the next after a success), and what the except branch decides
\* when the call raises
WaSendTextAndMedia(c, outcome) ==
  /\ \/ proc["loop"].pc = "idle" /\ wa.freeform[c] = "none"
     \/ proc["loop"].pc = "freeform" /\ proc["loop"].c = c
  /\ outcome \in FreeformOutcomes
  /\ LET j == IF proc["loop"].pc = "idle" THEN 1 ELSE proc["loop"].j
         idx == IF Uploads[c] = << >> THEN 0 ELSE j
         more == j < Len(Uploads[c])
     IN /\ wa' = [wa EXCEPT
                    !.freeform[c] = IF outcome = "ok" /\ more THEN @ ELSE outcome,
                    !.delivered = IF outcome = "ok" THEN @ \cup {[c |-> c, idx |-> idx]}
                                  ELSE @,
                    !.direct = IF outcome = "ok" THEN @ \cup {[c |-> c, idx |-> idx]}
                               ELSE @]
        /\ proc' = [proc EXCEPT !["loop"] =
                      IF outcome = "ok" /\ more
                      THEN [ProcIdle EXCEPT !.pc = "freeform", !.c = c, !.j = j + 1]
                      ELSE IF outcome = "blocked"
                           THEN [ProcIdle EXCEPT !.pc = "queue_load", !.c = c]
                           ELSE ProcIdle]
  /\ UNCHANGED << core_vars, req_vars, store_vars, photo_queue >>

\* _queue_item: q = _load_queue()
QueueItemLoad ==
  /\ proc["loop"].pc = "queue_load"
  /\ proc' = [proc EXCEPT !["loop"].q = photo_queue, !["loop"].pc = "queue_save"]
  /\ UNCHANGED << core_vars, req_vars, store_vars, photo_queue, wa >>

\* _queue_item: q.append(item); _save_queue(q)
QueueItemSave ==
  /\ proc["loop"].pc = "queue_save"
  /\ photo_queue' =
       Append(proc["loop"].q, queue_item(proc["loop"].c, Uploads[proc["loop"].c]))
  /\ proc' = [proc EXCEPT !["loop"].q = << >>, !["loop"].pc = "template"]
  /\ UNCHANGED << core_vars, req_vars, store_vars, wa >>

\* wa_send_with_template(details) (TWILIO_CONTENT_SID is configured)
WaSendWithTemplate ==
  /\ proc["loop"].pc = "template"
  /\ wa' = [wa EXCEPT !.template[proc["loop"].c] = @ + 1]
  /\ proc' = [proc EXCEPT !["loop"] = ProcIdle]
  /\ UNCHANGED << core_vars, req_vars, store_vars, photo_queue >>

\* _release_queue_and_send up to `if not q: return`, in process p
release_load(p) ==
  [proc EXCEPT ![p] =
     IF photo_queue = << >> THEN ProcIdle
     ELSE [ProcIdle EXCEPT !.pc = "release_save", !.q = photo_queue]]

\* the user writes on WhatsApp, which opens the window; Twilio posts to
\* /wa/incoming and wa_incoming calls _release_queue_and_send
WaIncoming ==
  /\ proc["loop"].pc = "idle"
  /\ wa' = [wa EXCEPT !.window = TRUE]
  /\ proc' = release_load("loop")
  /\ UNCHANGED << core_vars, req_vars, store_vars, photo_queue >>

\* POST /queue/release: queue_release calls _release_queue_and_send
QueueRelease ==
  /\ proc["thread"].pc = "idle"
  /\ photo_queue # << >>
  /\ proc' = release_load("thread")
  /\ UNCHANGED << core_vars, req_vars, store_vars, photo_queue, wa >>

\* _release_queue_and_send: _save_queue([])
ReleaseSave(p) ==
  /\ proc[p].pc = "release_save"
  /\ photo_queue' = << >>
  /\ proc' = [proc EXCEPT ![p].pc = "release_send", ![p].i = 1, ![p].j = 1]
  /\ UNCHANGED << core_vars, req_vars, store_vars, wa >>

\* the process after the send of message j of item i: the next media of
\* the item, or after the last media or an exception the next item, or
\* the end of the release
release_next(pr, ok) ==
  IF ok /\ pr.j < Len(pr.q[pr.i].media_urls) THEN [pr EXCEPT !.j = @ + 1]
  ELSE IF pr.i < Len(pr.q) THEN [pr EXCEPT !.i = @ + 1, !.j = 1]
  ELSE ProcIdle

\* _release_queue_and_send: one twilio_client.messages.create of the loop
\* over q
ReleaseSend(p, outcome) ==
  /\ proc[p].pc = "release_send"
  /\ outcome \in FreeformOutcomes
  /\ LET item == proc[p].q[proc[p].i]
         idx == IF item.media_urls = << >> THEN 0 ELSE proc[p].j
         ok == outcome = "ok"
     IN /\ wa' = [wa EXCEPT
                    !.attempts[item.caption] = IF proc[p].j = 1 THEN @ + 1 ELSE @,
                    !.delivered = IF ok THEN @ \cup {[c |-> item.caption, idx |-> idx]}
                                  ELSE @,
                    !.released = IF ok THEN @ \cup {[c |-> item.caption, idx |-> idx]}
                                 ELSE @]
        /\ proc' = [proc EXCEPT ![p] = release_next(proc[p], ok)]
  /\ UNCHANGED << core_vars, req_vars, store_vars, photo_queue >>

QueueNext ==
  \/ WindowExpires
  \/ \E c \in Captions, outcome \in {"ok", "blocked", "error"} :
        WaSendTextAndMedia(c, outcome)
  \/ QueueItemLoad
  \/ QueueItemSave
  \/ WaSendWithTemplate
  \/ WaIncoming
  \/ QueueRelease
  \/ \E p \in Procs : ReleaseSave(p)
  \/ \E p \in Procs, outcome \in {"ok", "blocked", "error"} : ReleaseSend(p, outcome)

QueueSpec == Init /\ [][QueueNext]_vars

\* POST /queue/clear: queue_clear calls _save_queue([]), one write under
\* QUEUE_LOCK, whatever the other handlers are doing
QueueClear ==
  /\ wa' = [wa EXCEPT !.cleared = @ \cup {photo_queue[k].caption : k \in 1..Len(photo_queue)}]
  /\ photo_queue' = << >>
  /\ UNCHANGED << core_vars, req_vars, store_vars, proc >>

ClearNext ==
  \/ QueueNext
  \/ QueueClear

ClearSpec == Init /\ [][ClearNext]_vars

\* the spans a request has parsed, flat by flat
ReqSpans(r) == [f \in Flats |-> parse_bookings(DictGet(req[r].got, f))]

\* the spans of the calendars as they are served now, without those of the
\* flats whose fetch failed in request r
ServedSpans(r) ==
  [f \in Flats |->
     IF f \in req[r].fetched_fail THEN << >>
     ELSE parse_bookings(fetch_ics(UrlOf(f), requests_get(feed[UrlOf(f)], "ok")))]

\* C16: a /cleaner request computes its schedule from the texts it has
\* fetched itself and from nothing else, whatever other requests do at
\* the same time; so a request that ran after the last change of the
\* feeds shows the schedule of the feeds as they are now.
C16_RecomputedPerRequest ==
  \A r \in Reqs : req[r].pc = "served" =>
    /\ req[r].schedule = build_schedule(req[r].days, Today, ReqSpans(r))
    /\ req[r].html = render_schedule(req[r].schedule, req[r].days)
    /\ ~req[r].changed =>
         req[r].schedule = build_schedule(req[r].days, Today, ServedSpans(r))

\* C16 witness: a request has served the schedule of the changed feed
\* while another request, begun before the change, has served the old one
C16_Witness ==
  \E r \in Reqs, o \in Reqs :
    /\ req[r].pc = "served" /\ ~req[r].changed /\ req[r].fetched_fail = {}
    /\ req[o].pc = "served" /\ req[o].changed /\ req[o].fetched_fail = {}
    /\ req[r].days = req[o].days
    /\ req[r].schedule # req[o].schedule
    /\ req[r].schedule # << >>

\* the captions of the items of a list
CaptionsOf(q) == {q[k].caption : k \in 1..Len(q)}

\* the items process p has read for release and not yet tried to send
Pending(p) ==
  IF proc[p].pc = "release_save" THEN CaptionsOf(proc[p].q)
  ELSE IF proc[p].pc = "release_send"
       THEN {proc[p].q[k].caption : k \in (proc[p].i + 1)..Len(proc[p].q)}
            \cup (IF proc[p].j = 1 THEN {proc[p].q[proc[p].i].caption} ELSE {})
       ELSE {}

\* the item process p is sending
Sending(p) ==
  IF proc[p].pc = "release_send" THEN {proc[p].q[proc[p].i].caption} ELSE {}

\* C19: _release_queue_and_send empties the stored queue before its first
\* send, so an item read for release is tried by one release only and not
\* sent again by a later or concurrent release; and a failed send of one
\* item does not keep the release from trying the items after it.
C19_ReleasedOnce ==
  /\ \A c \in Captions : wa.attempts[c] <= 1
  /\ \A p \in Procs : proc[p].pc = "release_send" =>
       \A k \in 1..(proc[p].i - 1) : wa.attempts[proc[p].q[k].caption] >= 1

\* the upload of c is over
UploadDone(c) ==
  /\ wa.freeform[c] # "none"
  /\ ~(proc["loop"].pc \in {"queue_load", "queue_save", "template"} /\ proc["loop"].c = c)

\* C20: a freeform send blocked by error 63016 puts one item with the
\* caption and all media URLs in the queue and sends one template; a
\* freeform send that succeeds or fails otherwise queues nothing; and a
\* queued item is delivered by the release that follows: once the upload
\* is over the item is in the stored queue, or read by a release that is
\* still to send it, or delivered.
C20_BlockedIsQueuedAndDelivered ==
  \A c \in Captions :
    /\ \A k \in 1..Len(photo_queue) :
         photo_queue[k].caption = c =>
           /\ photo_queue[k].media_urls = Uploads[c]
           /\ wa.freeform[c] = "blocked"
           /\ \A l \in 1..Len(photo_queue) : photo_queue[l].caption = c => l = k
    /\ wa.freeform[c] \in {"ok", "error"} =>
         wa.template[c] = 0 /\ wa.attempts[c] = 0
    /\ (wa.freeform[c] = "blocked" /\ UploadDone(c)) =>
         /\ wa.template[c] = 1
         /\ \/ c \in CaptionsOf(photo_queue)
            \/ \E p \in Procs : c \in Pending(p) \cup Sending(p)
            \/ Messages(c, Uploads[c]) \subseteq wa.delivered

\* ------------------------------------------- the two builders side by side
\* the interval lists app.py has parsed from the calendars, given to
\* build_schedule and, as a bookings dict, to build_schedule_for_days, with
\* the same window
BuildBoth(n) ==
  /\ stage = "idle"
  /\ LET sp == [f \in Flats |->
                  parse_bookings(fetch_ics(UrlOf(f), requests_get(feed[UrlOf(f)], "ok")))]
         bk == [i \in 1..Len(load_flats) |->
                  [k |-> load_flats[i].k, v |-> sp[load_flats[i].k]]]
     IN /\ spans' = sp
        /\ bookings' = bk
        /\ schedule' = build_schedule(n, Today, sp)
        /\ bc_schedule' = build_schedule_for_days(bk, Today, n)
  /\ days' = n
  /\ stage' = "both"
  /\ UNCHANGED << feed, failed, html, ics_map, bc_out, exc >>
  /\ UNCHANGED << req_vars, queue_vars, store_vars >>

BuildNext ==
  \/ \E url \in Urls, ev \in EventSet : FeedPublish(url, ev)
  \/ \E url \in Urls, text \in {BlankText, GarbageText, CalText(<< >>)} :
        FeedReplace(url, text)
  \/ \E n \in DayCounts : BuildBoth(n)
  \/ EndRun

BuildSpec == Init /\ [][BuildNext]_vars

\* C21: given the same interval lists per unit and the same window,
\* build_schedule of app.py and build_schedule_for_days of
\* booking_cleaner.py hold the same (day, unit, check_in, check_out)
\* tuples.
C21_BuildersAgree ==
  stage = "both" => AppEntries = BcEntries

\* C21 witness: both builders were given the same stays and hold a day
\* with check-in and check-out, a check-in only and a check-out only
C21_Witness ==
  /\ stage = "both"
  /\ AppEntries # {}
  /\ \E e \in AppEntries : e.check_in /\ e.check_out
  /\ \E e \in BcEntries : e.check_in /\ ~e.check_out
  /\ \E e \in BcEntries : ~e.check_in /\ e.check_out


\* ------------------------------------------------- the queue under clear
\* the call _queue_item(caption c, ...) has returned
QueueItemDone(c) ==
  /\ wa.freeform[c] = "blocked"
  /\ ~(proc["loop"].pc \in {"queue_load", "queue_save"} /\ proc["loop"].c = c)

\* C22: no queued item is lost, however _queue_item, the releases and
\* POST /queue/clear interleave: an item that _queue_item was given is
\* afterwards in the stored queue, or read by a release that is to send it
\* or has tried to, or removed by POST /queue/clear.
C22_NoItemLost ==
  \A c \in Captions : QueueItemDone(c) =>
    \/ c \in CaptionsOf(photo_queue)
    \/ \E p \in Procs : c \in Pending(p) \cup Sending(p)
    \/ wa.attempts[c] >= 1
    \/ c \in wa.cleared

\* the messages of the media URLs of the items of a list
MediaOf(q) ==
  UNION {{[c |-> q[k].caption, idx |-> j] : j \in 1..Len(q[k].media_urls)} :
           k \in 1..Len(q)}

\* C23: a photo URL reaches WhatsApp at most once over the freeform send
\* and the later release: a media URL whose freeform send has succeeded is
\* never put in the queue, and no release delivers it again.
C23_MediaOnce ==
  /\ MediaOf(photo_queue) \cap wa.direct = {}
  /\ wa.released \cap wa.direct = {}


\* ------------------------------------- completion marks and the counter
\* check_auth(session_token)
check_auth(session_token) ==
  store.APP_PASSWORD # "" /\ session_token = store.APP_PASSWORD

\* str.replace(old, new) for one character
str_replace(str, old, new) ==
  [i \in DOMAIN str |-> IF str[i] = old THEN new ELSE str[i]]

\* mark_path(flat, day_iso): the file "<day_iso>__<safe_flat>.done" of
\* MARK_DIR
mark_path(flat, day_iso) ==
  [day |-> day_iso,
   safe_flat |-> str_replace(str_replace(str_replace(flat, "/", "_"), "\\", "_"), " ", "_")]

\* how a call to the database may end: it cannot be tried without USE_DB
DbOutcomes == IF store.USE_DB THEN BOOLEAN ELSE {FALSE}

\* is_completed(flat, day_iso) with the marks of s; db_ok: the database
\* call does not raise
is_completed(s, flat, day_iso, db_ok) ==
  IF s.USE_DB /\ db_ok THEN << flat, day_iso >> \in s.rows
  ELSE mark_path(flat, day_iso) \in s.files

\* the marks after set_completed(flat, day_iso)
set_completed(s, flat, day_iso, db_ok) ==
  IF s.USE_DB /\ db_ok THEN [s EXCEPT !.rows = @ \cup {<< flat, day_iso >>}]
  ELSE [s EXCEPT !.files = @ \cup {mark_path(flat, day_iso)}]

\* the marks after clear_completed(day_iso, flat); "" and << >> stand for
\* an argument left out
clear_completed(s, day_iso, flat, db_ok) ==
  IF s.USE_DB /\ db_ok
  THEN [s EXCEPT !.rows =
          IF day_iso # "" /\ flat # << >> THEN @ \ {<< flat, day_iso >>}
          ELSE IF day_iso # "" THEN {r \in @ : r[2] # day_iso}
          ELSE {}]
  ELSE [s EXCEPT !.files =
          IF day_iso # "" /\ flat # << >> THEN @ \ {mark_path(flat, day_iso)}
          ELSE IF day_iso # "" THEN {f \in @ : f.day # day_iso}
          ELSE {}]

\* the forms POST /completed/reset is sent with: one flat on one day, one
\* day, everything with and without the confirmation, and a flat_day form
\* that names no flat
ResetForms ==
  {[scope |-> "flat_day", day |-> "d1", flat |-> f, confirm |-> ""] :
     f \in FormFlats \cup {<< >>}}
  \cup {[scope |-> "day", day |-> d, flat |-> << >>, confirm |-> ""] : d \in FormDays}
  \cup {[scope |-> "all", day |-> "", flat |-> << >>, confirm |-> cf] : cf \in {"CONFIRM", ""}}

\* the (flat, day) a clear_completed(day_iso, flat) is about
Covered(day_iso, flat) ==
  {fd \in FormFlats \X FormDays :
     /\ day_iso # "" => fd[2] = day_iso
     /\ (day_iso # "" /\ flat # << >>) => fd[1] = flat}

\* get_counter() with the values of s
get_counter(s, db_ok) ==
  IF s.USE_DB /\ db_ok THEN Cardinality(s.rows) + s.offset ELSE s.count

\* max(0, v)
max0(v) == IF v < 0 THEN 0 ELSE v

\* the values after set_counter(v): with USE_DB a database error leaves
\* them as they are
set_counter(s, v, db_ok) ==
  IF s.USE_DB THEN (IF db_ok THEN [s EXCEPT !.offset = v - Cardinality(s.rows)] ELSE s)
  ELSE [s EXCEPT !.count = max0(v)]

\* app.py is loaded: the settings are read and USE_DB = _db_init()
Boot(app_password, counter_password, db_ok) ==
  /\ store.pc = "off"
  /\ store' = [store EXCEPT !.pc = "on", !.USE_DB = db_ok,
                            !.APP_PASSWORD = app_password,
                            !.COUNTER_PASSWORD = counter_password]
  /\ UNCHANGED << core_vars, req_vars, queue_vars, http >>

\* POST /upload: upload_submit marks (flat, date) completed and calls
\* wa_send_text_and_media_or_queue, whose sends all end as outcome says
UploadSubmit(token, c, db_ok, outcome) ==
  /\ store.pc = "on"
  /\ proc["loop"].pc = "idle"
  /\ wa.freeform[c] = "none"
  /\ db_ok \in DbOutcomes
  /\ outcome \in FreeformOutcomes
  /\ IF ~check_auth(token) THEN UNCHANGED << store, wa, photo_queue >>
     ELSE /\ store' = [set_completed(store, UploadFlat[c], UploadDay[c], db_ok)
                         EXCEPT !.done = @ \cup {<< UploadFlat[c], UploadDay[c] >>}]
          /\ wa' = [wa EXCEPT
                      !.freeform[c] = outcome,
                      !.delivered = IF outcome = "ok" THEN @ \cup Messages(c, Uploads[c]) ELSE @,
                      !.direct = IF outcome = "ok" THEN @ \cup Messages(c, Uploads[c]) ELSE @,
                      !.template[c] = IF outcome = "blocked" THEN @ + 1 ELSE @]
          /\ photo_queue' = IF outcome = "blocked"
                            THEN Append(photo_queue, queue_item(c, Uploads[c]))
                            ELSE photo_queue
  /\ UNCHANGED << core_vars, req_vars, proc, http >>

\* POST /completed/reset: completed_reset
CompletedReset(token, pin, scope, day, flat, confirm, db_ok) ==
  /\ store.pc = "on"
  /\ db_ok \in DbOutcomes
  /\ IF \/ ~check_auth(token)
        \/ store.COUNTER_PASSWORD # "" /\ pin # store.COUNTER_PASSWORD
        \/ scope = "all" /\ confirm # "CONFIRM"
     THEN UNCHANGED store
     ELSE IF scope = "flat_day" /\ day # "" /\ flat # << >>
     THEN store' = [clear_completed(store, day, flat, db_ok)
                      EXCEPT !.done = @ \ Covered(day, flat)]
     ELSE IF scope = "day" /\ day # ""
     THEN store' = [clear_completed(store, day, << >>, db_ok)
                      EXCEPT !.done = @ \ Covered(day, << >>)]
     ELSE IF scope = "all"
     THEN store' = [clear_completed(store, "", << >>, db_ok)
                      EXCEPT !.done = @ \ Covered("", << >>)]
     ELSE UNCHANGED store
  /\ UNCHANGED << core_vars, req_vars, queue_vars, http >>

\* POST /counter/update in thread t: counter_update up to the return, or
\* with USE_DB up to bump_counter's _db_get_offset()
CounterUpdate(t, token, pin, action, db_ok) ==
  /\ store.pc = "on"
  /\ http[t].pc = "idle"
  /\ db_ok \in DbOutcomes
  /\ LET delta == IF action = "plus" THEN 1 ELSE 0 - 1
         returned == IF action = "plus" THEN store.bumps + 1 ELSE store.bumps
         begun == [pc |-> "bump_set", off |-> store.offset, delta |-> delta, token |-> token]
     IN IF \/ ~check_auth(token)
           \/ store.COUNTER_PASSWORD # "" /\ pin # store.COUNTER_PASSWORD
        THEN /\ UNCHANGED store
             /\ http' = [http EXCEPT ![t] = ThreadDone]
        ELSE IF action = "reset"
        THEN /\ store' = set_counter(store, 0, db_ok)
             /\ http' = [http EXCEPT ![t] = ThreadDone]
        ELSE IF ~store.USE_DB
        THEN /\ store' = [store EXCEPT !.count = max0(@ + delta), !.bumps = returned]
             /\ http' = [http EXCEPT ![t] = ThreadDone]
        ELSE IF db_ok
        THEN /\ UNCHANGED store
             /\ http' = [http EXCEPT ![t] = begun]
        ELSE /\ store' = [store EXCEPT !.bumps = returned]
             /\ http' = [http EXCEPT ![t] = ThreadDone]
  /\ UNCHANGED << core_vars, req_vars, queue_vars >>

\* bump_counter in thread t: _db_set_offset(offset + delta) and the return
BumpSet(t, db_ok) ==
  /\ http[t].pc = "bump_set"
  /\ store' = [store EXCEPT
                 !.offset = IF db_ok THEN http[t].off + http[t].delta ELSE @,
                 !.bumps = IF http[t].delta = 1 THEN @ + 1 ELSE @]
  /\ http' = [http EXCEPT ![t] = ThreadDone]
  /\ UNCHANGED << core_vars, req_vars, queue_vars >>

\* WhatsApp after a release has tried every item of q, all sends ending
\* the same way
release_all(w, q, ok) ==
  [w EXCEPT
     !.attempts = [c \in Captions |-> IF c \in CaptionsOf(q) THEN @[c] + 1 ELSE @[c]],
     !.delivered = IF ok THEN @ \cup UNION {Messages(c, Uploads[c]) : c \in CaptionsOf(q)}
                   ELSE @,
     !.released = IF ok THEN @ \cup UNION {Messages(c, Uploads[c]) : c \in CaptionsOf(q)}
                  ELSE @]

\* POST /wa/incoming with whatever cookie: wa_incoming runs
\* _release_queue_and_send to its end
WaIncomingRequest(token, ok) ==
  /\ store.pc = "on"
  /\ proc["loop"].pc = "idle"
  /\ wa' = release_all([wa EXCEPT !.window = TRUE], photo_queue, ok)
  /\ photo_queue' = << >>
  /\ UNCHANGED << core_vars, req_vars, proc, store_vars >>

\* the requests come one after another, the counter requests in one thread
AdminNext ==
  \/ \E a \in Passwords, cp \in Pins, db_ok \in BOOLEAN : Boot(a, cp, db_ok)
  \/ \E token \in Tokens, c \in Captions, db_ok \in BOOLEAN,
        outcome \in {"ok", "blocked", "error"} : UploadSubmit(token, c, db_ok, outcome)
  \/ \E token \in Tokens, pin \in Pins, form \in ResetForms, db_ok \in BOOLEAN :
        CompletedReset(token, pin, form.scope, form.day, form.flat, form.confirm, db_ok)
  \/ \E token \in Tokens, pin \in Pins, action \in {"plus", "minus", "reset"},
        db_ok \in BOOLEAN : CounterUpdate("t1", token, pin, action, db_ok)
  \/ \E db_ok \in BOOLEAN : BumpSet("t1", db_ok)
  \/ WindowExpires
  \/ \E token \in Tokens, ok \in BOOLEAN : WaIncomingRequest(token, ok)

AdminSpec == Init /\ [][AdminNext]_vars

\* C24: once set_completed(flat, day) has returned, is_completed(flat, day)
\* is true until a clear_completed over (flat, day), with the marks in
\* files, in the database, and when database calls fail and the files are
\* used instead; and a second set_completed changes nothing.
C24_CompletedUntilCleared ==
  /\ \A fd \in store.done : \A db_ok \in DbOutcomes :
       is_completed(store, fd[1], fd[2], db_ok)
  /\ \A fd \in FormFlats \X FormDays : \A db_ok \in DbOutcomes :
       set_completed(set_completed(store, fd[1], fd[2], db_ok), fd[1], fd[2], db_ok)
         = set_completed(store, fd[1], fd[2], db_ok)


\* what a request without a valid session cookie must leave alone: the
\* completion marks, the cleans counter and the WhatsApp queue
Protected == << store.rows, store.files, store.count, store.offset, photo_queue >>

\* a step of a request that carries the cookie token
RequestStep(token) ==
  \/ \E c \in Captions, db_ok \in BOOLEAN, outcome \in {"ok", "blocked", "error"} :
        UploadSubmit(token, c, db_ok, outcome)
  \/ \E pin \in Pins, form \in ResetForms, db_ok \in BOOLEAN :
        CompletedReset(token, pin, form.scope, form.day, form.flat, form.confirm, db_ok)
  \/ \E t \in Threads, pin \in Pins, action \in {"plus", "minus", "reset"},
        db_ok \in BOOLEAN : CounterUpdate(t, token, pin, action, db_ok)
  \/ \E t \in Threads, db_ok \in BOOLEAN : http[t].token = token /\ BumpSet(t, db_ok)
  \/ \E ok \in BOOLEAN : WaIncomingRequest(token, ok)

\* C25: no HTTP request without a valid session cookie changes the
\* completion marks, the cleans counter or the WhatsApp queue; and with
\* APP_PASSWORD unset check_auth rejects every token.
C25_NoChangeWithoutCookie ==
  /\ [][\A token \in Tokens :
          (~check_auth(token) /\ RequestStep(token)) => Protected' = Protected]_vars
  /\ [](store.APP_PASSWORD = "" => \A token \in Tokens : ~check_auth(token))


\* the bump_counter(1) calls of POST /counter/update, with a valid cookie
\* and PIN and a database that answers, in threads that run side by side
CounterNext ==
  \/ \E a \in Passwords, cp \in Pins, db_ok \in BOOLEAN : Boot(a, cp, db_ok)
  \/ \E t \in Threads :
        CounterUpdate(t, store.APP_PASSWORD, store.COUNTER_PASSWORD, "plus", store.USE_DB)
  \/ \E t \in Threads : BumpSet(t, TRUE)

CounterSpec == Init /\ [][CounterNext]_vars

\* C26: no counter update is lost: when k bump_counter(1) calls that ran
\* side by side from a counter of c have all returned, get_counter()
\* returns c + k, with the counter in the file and in the database.
C26_NoLostBump ==
  (\A t \in Threads : http[t].pc # "bump_set") =>
    get_counter(store, store.USE_DB) = store.bumps

============================================================================
